---- MODULE Spec2Model ----
(***************************************************************************)
(* Model of tripy.py: a Streamlit script that loads SP / SD / SB report    *)
(* files, normalizes the ASIN-keyed ones, concatenates them per type,      *)
(* stamps the selected date, left-joins each type against a reference      *)
(* mapping, aggregates by (Selected Date, Sub-Category) and offers the     *)
(* three summaries for download.                                           *)
(*                                                                         *)
(* A DataFrame is [cols |-> sequence of column names, rows |-> sequence of *)
(* functions column -> cell].  A cell is <<>> (NaN / missing) or <<v>>.    *)
(* An uploaded file is [name |-> sequence of characters, header |-> its    *)
(* header line, data |-> its data lines, each a sequence of cells].        *)
(***************************************************************************)
EXTENDS Integers, Sequences, FiniteSets, TLC

VARIABLES
    uploaded,       \* SP_file, SD_file, SB_file: the lists the uploaders return
    selected_date,  \* the date widget's value, [y, m, d]
    pc,             \* position of the script run
    messages,       \* st.error / st.warning / st.success output of this run
    dfs,            \* sp_dfs, sd_dfs, sb_dfs
    file_df,        \* sp_file_df, sd_file_df, sb_file_df
    merged_data,    \* merged_data_SP, merged_data_SB, merged_data_SD
    summary,        \* SP_summary, SD_summary, SB_summary
    buffer,         \* SP_buffer, SD_buffer, SB_buffer
    downloads,      \* file names of the download buttons rendered by this run
    assigned        \* the locals of this run that have been assigned

vars == <<uploaded, selected_date, pc, messages, dfs, file_df, merged_data,
          summary, buffer, downloads, assigned>>

Types == {"SP", "SD", "SB"}

\* Cap on the number of files uploaded in one session.
MaxUploads == 4

-----------------------------------------------------------------------------
(* Cells, tables and sequence helpers *)

Null == <<>>
Some(v) == <<v>>
IsNull(cell) == cell = <<>>
NumVal(cell) == IF cell = <<>> THEN 0 ELSE cell[1]

Range(s) == {s[i] : i \in DOMAIN s}

IndexOf(s, x) == CHOOSE i \in DOMAIN s : s[i] = x

RECURSIVE Flatten(_)
Flatten(ss) == IF Len(ss) = 0 THEN <<>> ELSE Head(ss) \o Flatten(Tail(ss))

\* pd.DataFrame()
EmptyDataFrame == [cols |-> <<>>, rows |-> <<>>]

\* The column names of the program.
K_ASIN == "Advertised ASIN"
S14 == "14 Day Total Sales (₹)"
O14 == "14 Day Total Orders (#)"
U14 == "14 Day Total Units (#)"
S7 == "7 Day Total Sales (₹)"
U7 == "7 Day Total Units (#)"
O7 == "7 Day Total Orders (#)"
TotalSales == "Total Sales"
TotalOrders == "Total Orders"
TotalUnits == "Total Units"
Spend == "Spend"
SelectedDate == "Selected Date"
SubCategory == "Sub-Category"
K_Campaigns == "Campaigns"

rename_dict_14_day == (S14 :> TotalSales) @@ (O14 :> TotalOrders) @@ (U14 :> TotalUnits)
rename_dict_7_day == (S7 :> TotalSales) @@ (U7 :> TotalUnits) @@ (O7 :> TotalOrders)

\* The agg_dict keys of the three aggregate_data calls, in dict order.
AggKeys(t) ==
    IF t = "SB" THEN <<"Orders", "Clicks", "Sales(INR)", "Spend(INR)">>
    ELSE <<TotalOrders, TotalUnits, TotalSales, Spend>>

-----------------------------------------------------------------------------
(* Tabular loader *)

\* str.endswith
EndsWith(s, suf) ==
    /\ Len(s) >= Len(suf)
    /\ SubSeq(s, Len(s) - Len(suf) + 1, Len(s)) = suf

DotXlsx == <<".", "x", "l", "s", "x">>
DotCsv == <<".", "c", "s", "v">>

\* pd.read_csv / pd.read_excel: the header line names the columns, every data
\* line becomes a row keyed by column name.
ParseTable(f) ==
    [cols |-> f.header,
     rows |-> [i \in 1..Len(f.data) |->
                 [c \in Range(f.header) |-> f.data[i][IndexOf(f.header, c)]]]]

ErrUnsupported == [kind |-> "error", text |-> "Unsupported file format"]
WarnNotFound == [kind |-> "warning",
                 text |-> "Expected columns not found. Returning the original DataFrame."]
ErrMissingCols == [kind |-> "error",
                   text |-> "One or more columns are missing for aggregation"]
WarnUpload == [kind |-> "warning",
               text |-> "Please upload all required files (SP, SD, SB)."]
MsgSuccess == [kind |-> "success",
               text |-> "Processing completed and files have been merged."]

read_file(uploaded_file) ==
    IF EndsWith(uploaded_file.name, DotXlsx) THEN
        [df |-> ParseTable(uploaded_file), msgs |-> <<>>]
    ELSE IF EndsWith(uploaded_file.name, DotCsv) THEN
        [df |-> ParseTable(uploaded_file), msgs |-> <<>>]
    ELSE
        [df |-> EmptyDataFrame, msgs |-> <<ErrUnsupported>>]

-----------------------------------------------------------------------------
(* Column normalizer *)

\* df.rename(columns=d): every column named by a key of d takes the mapped name.
RenameColumns(df, d) ==
    LET new(c) == IF c \in DOMAIN d THEN d[c] ELSE c
        newcols == [i \in 1..Len(df.cols) |-> new(df.cols[i])]
        old(c2) == df.cols[CHOOSE i \in 1..Len(df.cols) : newcols[i] = c2]
    IN [cols |-> newcols,
        rows |-> [i \in 1..Len(df.rows) |->
                    [c2 \in Range(newcols) |-> df.rows[i][old(c2)]]]]

\* Faulty variants of the normalizer: 7-day set tested first; unmatched table
\* replaced by an empty one; 7-day set not handled.
normalize_7_day_first(df) ==
    IF \A col \in DOMAIN rename_dict_7_day : col \in Range(df.cols) THEN
        [df |-> RenameColumns(df, rename_dict_7_day), msgs |-> <<>>]
    ELSE IF \A col \in DOMAIN rename_dict_14_day : col \in Range(df.cols) THEN
        [df |-> RenameColumns(df, rename_dict_14_day), msgs |-> <<>>]
    ELSE
        [df |-> df, msgs |-> <<WarnNotFound>>]

normalize_unmatched_empty(df) ==
    IF \A col \in DOMAIN rename_dict_14_day : col \in Range(df.cols) THEN
        [df |-> RenameColumns(df, rename_dict_14_day), msgs |-> <<>>]
    ELSE IF \A col \in DOMAIN rename_dict_7_day : col \in Range(df.cols) THEN
        [df |-> RenameColumns(df, rename_dict_7_day), msgs |-> <<>>]
    ELSE
        [df |-> EmptyDataFrame, msgs |-> <<WarnNotFound>>]

normalize_14_day_only(df) ==
    IF \A col \in DOMAIN rename_dict_14_day : col \in Range(df.cols) THEN
        [df |-> RenameColumns(df, rename_dict_14_day), msgs |-> <<>>]
    ELSE
        [df |-> df, msgs |-> <<WarnNotFound>>]

\* Lines 41-49 of read_file_asin.
normalize_asin_columns(df) ==
    IF \A col \in DOMAIN rename_dict_14_day : col \in Range(df.cols) THEN
        [df |-> RenameColumns(df, rename_dict_14_day), msgs |-> <<>>]
    ELSE IF \A col \in DOMAIN rename_dict_7_day : col \in Range(df.cols) THEN
        [df |-> RenameColumns(df, rename_dict_7_day), msgs |-> <<>>]
    ELSE
        [df |-> df, msgs |-> <<WarnNotFound>>]

read_file_asin(uploaded_file) ==
    IF EndsWith(uploaded_file.name, DotXlsx) \/ EndsWith(uploaded_file.name, DotCsv) THEN
        normalize_asin_columns(ParseTable(uploaded_file))
    ELSE
        [df |-> EmptyDataFrame, msgs |-> <<ErrUnsupported>>]

-----------------------------------------------------------------------------
(* Concatenation, date stamp, join, aggregation, export *)

\* Columns of pd.concat: the union, in order of first appearance.
RECURSIVE UnionCols(_, _)
UnionCols(frames, acc) ==
    IF Len(frames) = 0 THEN acc
    ELSE UnionCols(Tail(frames),
                   acc \o SelectSeq(Head(frames).cols, LAMBDA c : c \notin Range(acc)))

\* pd.concat(frames, ignore_index=True) on a non-empty list: rows in list
\* order, a column a frame lacks is filled with NaN.
concat(frames) ==
    LET cols == UnionCols(frames, <<>>)
        widen(r) == [c \in Range(cols) |-> IF c \in DOMAIN r THEN r[c] ELSE Null]
    IN [cols |-> cols,
        rows |-> Flatten([k \in 1..Len(frames) |->
                            [i \in 1..Len(frames[k].rows) |-> widen(frames[k].rows[i])]])]

\* strftime('%Y-%m-%d')
Pad2(n) == IF n < 10 THEN "0" \o ToString(n) ELSE ToString(n)
\* %Y: the year in decimal, as many digits as it has (the runtime does not
\* zero-pad a year below 1000).
FormatYear(n) == ToString(n)
strftime(date) == FormatYear(date.y) \o "-" \o Pad2(date.m) \o "-" \o Pad2(date.d)

\* Faulty variant: the assignment fills the column only where it has no value yet.
AssignColumn_keep_existing(df, col, v) ==
    LET cols == IF col \in Range(df.cols) THEN df.cols ELSE Append(df.cols, col)
    IN [cols |-> cols,
        rows |-> [i \in 1..Len(df.rows) |->
                    [c \in Range(cols) |->
                        IF c = col /\ c \in DOMAIN df.rows[i] /\ ~IsNull(df.rows[i][c])
                        THEN df.rows[i][c]
                        ELSE IF c = col THEN Some(v) ELSE df.rows[i][c]]]]

\* df[col] = v with a scalar v: a new last column, or every value of the
\* existing column overwritten.
AssignColumn(df, col, v) ==
    LET cols == IF col \in Range(df.cols) THEN df.cols ELSE Append(df.cols, col)
    IN [cols |-> cols,
        rows |-> [i \in 1..Len(df.rows) |->
                    [c \in Range(cols) |-> IF c = col THEN Some(v) ELSE df.rows[i][c]]]]

\* pd.merge(left, right, left_on=, right_on=, how='left'): KeyError when a key
\* column is missing; otherwise every left row in order, once per matching
\* right row, or once with NaN right fields when nothing matches.  A column
\* name both sides have gets the suffixes _x and _y.
merge(left, right, left_on, right_on) ==
    IF left_on \notin Range(left.cols) \/ right_on \notin Range(right.cols) THEN
        [raised |-> TRUE, df |-> EmptyDataFrame]
    ELSE
        LET both == Range(left.cols) \cap Range(right.cols)
            lname(c) == IF c \in both THEN c \o "_x" ELSE c
            rname(c) == IF c \in both THEN c \o "_y" ELSE c
            cols == [i \in 1..Len(left.cols) |-> lname(left.cols[i])]
                    \o [i \in 1..Len(right.cols) |-> rname(right.cols[i])]
            lcols == {lname(c) : c \in Range(left.cols)}
            lsrc(c2) == CHOOSE c \in Range(left.cols) : lname(c) = c2
            rsrc(c2) == CHOOSE c \in Range(right.cols) : rname(c) = c2
            joined(l, r) == [c2 \in Range(cols) |->
                               IF c2 \in lcols THEN l[lsrc(c2)] ELSE r[rsrc(c2)]]
            unmatched(l) == [c2 \in Range(cols) |->
                               IF c2 \in lcols THEN l[lsrc(c2)] ELSE Null]
            matches(l) == SelectSeq(right.rows, LAMBDA r : r[right_on] = l[left_on])
            out(l) == IF Len(matches(l)) = 0 THEN <<unmatched(l)>>
                      ELSE [j \in 1..Len(matches(l)) |-> joined(l, matches(l)[j])]
        IN [raised |-> FALSE,
            df |-> [cols |-> cols,
                    rows |-> Flatten([i \in 1..Len(left.rows) |-> out(left.rows[i])])]]

\* Python's order on the strings that occur as group keys.
LexOrder == <<"1999-12-31", "2000-01-01", "2024-03-09", "Audio", "Video">>
StrRank(s) == IndexOf(LexOrder, s)
KeyLess(a, b) ==
    \/ StrRank(a[1]) < StrRank(b[1])
    \/ (a[1] = b[1] /\ StrRank(a[2]) < StrRank(b[2]))

RECURSIVE SortKeys(_)
SortKeys(S) ==
    IF S = {} THEN <<>>
    ELSE LET m == CHOOSE a \in S : \A b \in S \ {a} : KeyLess(a, b)
         IN <<m>> \o SortKeys(S \ {m})

RECURSIVE SumCells(_)
SumCells(cells) ==
    IF Len(cells) = 0 THEN 0 ELSE NumVal(Head(cells)) + SumCells(Tail(cells))

\* df.groupby(['Selected Date', 'Sub-Category']).agg(sum).reset_index():
\* rows whose key has a NaN are left out (dropna=True), the groups come sorted
\* by key, a sum skips NaN values.
GroupBySum(df, keys) ==
    LET keyed == SelectSeq(df.rows, LAMBDA r :
                    ~IsNull(r[SelectedDate]) /\ ~IsNull(r[SubCategory]))
        groups == SortKeys({<<r[SelectedDate][1], r[SubCategory][1]>> : r \in Range(keyed)})
        members(g) == SelectSeq(keyed, LAMBDA r :
                        r[SelectedDate] = Some(g[1]) /\ r[SubCategory] = Some(g[2]))
        cols == <<SelectedDate, SubCategory>> \o keys
        total(g, c) == LET ms == members(g)
                       IN SumCells([i \in 1..Len(ms) |-> ms[i][c]])
    IN [cols |-> cols,
        rows |-> [n \in 1..Len(groups) |->
                    [c \in Range(cols) |->
                        IF c = SelectedDate THEN Some(groups[n][1])
                        ELSE IF c = SubCategory THEN Some(groups[n][2])
                        ELSE Some(total(groups[n], c))]]]

\* Faulty variant: sums the metric columns that are present instead of giving up.
aggregate_data_partial(df, keys) ==
    IF ~({SelectedDate, SubCategory} \subseteq Range(df.cols)) THEN
        [raised |-> TRUE, df |-> EmptyDataFrame, msgs |-> <<>>]
    ELSE
        [raised |-> FALSE,
         df |-> GroupBySum(df, SelectSeq(keys, LAMBDA c : c \in Range(df.cols))),
         msgs |-> <<>>]

aggregate_data(df, keys) ==
    IF \A col \in Range(keys) : col \in Range(df.cols) THEN
        IF {SelectedDate, SubCategory} \subseteq Range(df.cols) THEN
            [raised |-> FALSE, df |-> GroupBySum(df, keys), msgs |-> <<>>]
        ELSE
            \* groupby raises KeyError on a missing grouping column
            [raised |-> TRUE, df |-> EmptyDataFrame, msgs |-> <<>>]
    ELSE
        [raised |-> FALSE, df |-> EmptyDataFrame, msgs |-> <<ErrMissingCols>>]

\* df.to_csv(buffer, index=False): a header line, then one line per row, the
\* cells in column order.
save_df_to_csv(df) ==
    [header |-> df.cols,
     data |-> [i \in 1..Len(df.rows) |->
                 [j \in 1..Len(df.cols) |-> df.rows[i][df.cols[j]]]]]

-----------------------------------------------------------------------------
(* Reference mappings (read once at script start) and the uploaded files *)

ASIN_Mapping ==
    [cols |-> <<"ASIN", SubCategory>>,
     rows |-> << [ASIN |-> Some("B01")] @@ (SubCategory :> Some("Audio")),
                 [ASIN |-> Some("B02")] @@ (SubCategory :> Some("Video")),
                 [ASIN |-> Some("B03")] @@ (SubCategory :> Some("Audio")) >>]

Campaign_Mapping ==
    [cols |-> <<"SB Campaign Name", SubCategory>>,
     rows |-> << ("SB Campaign Name" :> Some("Brand A")) @@ (SubCategory :> Some("Audio")),
                 ("SB Campaign Name" :> Some("Brand V")) @@ (SubCategory :> Some("Video")) >>]

\* Report files a user may upload.  "B09" and "Brand X" are keys the mappings
\* do not have.
Report14 ==
    [name |-> <<"a", ".", "c", "s", "v">>,
     header |-> <<K_ASIN, S14, O14, U14, Spend>>,
     data |-> << <<Some("B01"), Some(10), Some(1), Some(2), Some(5)>>,
                 <<Some("B09"), Some(20), Some(2), Some(3), Some(7)>> >>]

Report7 ==
    [name |-> <<"b", ".", "x", "l", "s", "x">>,
     header |-> <<K_ASIN, S7, U7, O7, Spend>>,
     data |-> << <<Some("B01"), Some(30), Some(4), Some(3), Some(6)>>,
                 <<Some("B02"), Some(8), Null, Some(1), Some(2)>> >>]

ReportBoth ==
    [name |-> <<"c", ".", "c", "s", "v">>,
     header |-> <<K_ASIN, S14, O14, U14, S7, U7, O7, Spend, SelectedDate>>,
     data |-> << <<Some("B02"), Some(11), Some(1), Some(1), Some(9), Some(1), Some(1),
                   Some(3), Some("1999-12-31")>> >>]

ReportPartial ==
    [name |-> <<"d", ".", "c", "s", "v">>,
     header |-> <<K_ASIN, S14, O14, Spend>>,
     data |-> << <<Some("B03"), Some(12), Some(2), Some(4)>> >>]

ReportNoSpend ==
    [name |-> <<"f", ".", "x", "l", "s", "x">>,
     header |-> <<K_ASIN, TotalSales, TotalOrders, TotalUnits>>,
     data |-> << <<Some("B01"), Some(15), Some(2), Some(2)>> >>]

\* A file whose name ends in neither '.xlsx' nor '.csv' (endswith is case
\* sensitive).
ReportUnsupported ==
    [name |-> <<"e", ".", "C", "S", "V">>,
     header |-> <<K_ASIN, S14, O14, U14, Spend>>,
     data |-> << <<Some("B01"), Some(1), Some(1), Some(1), Some(1)>> >>]

CampaignReport ==
    [name |-> <<"g", ".", "c", "s", "v">>,
     header |-> <<K_Campaigns, "Orders", "Clicks", "Sales(INR)", "Spend(INR)">>,
     data |-> << <<Some("Brand A"), Some(1), Some(10), Some(100), Some(20)>>,
                 <<Some("Brand X"), Some(2), Some(5), Some(50), Some(10)>>,
                 <<Some("Brand A"), Some(3), Some(7), Some(70), Some(15)>> >>]

CampaignNoClicks ==
    [name |-> <<"h", ".", "x", "l", "s", "x">>,
     header |-> <<K_Campaigns, "Orders", "Sales(INR)", "Spend(INR)">>,
     data |-> << <<Some("Brand V"), Some(1), Some(40), Some(8)>> >>]

Catalogue(t) ==
    IF t = "SP" THEN {Report14, Report7, ReportBoth, ReportPartial, ReportUnsupported}
    ELSE IF t = "SD" THEN {Report7, ReportNoSpend}
    ELSE {CampaignReport, CampaignNoClicks, ReportUnsupported}

\* Dates the date widget may hold (its range is 2000-01-01 .. 2100-12-31).
Dates == {[y |-> 2000, m |-> 1, d |-> 1], [y |-> 2024, m |-> 3, d |-> 9]}

-----------------------------------------------------------------------------
(* The script run *)

NoFrames == [t \in Types |-> <<>>]
NoTables == [t \in Types |-> EmptyDataFrame]
NoBuffers == [t \in Types |-> [header |-> <<>>, data |-> <<>>]]

Local(kind, t) == kind \o "_" \o t

\* Faulty variant: each report type is joined and aggregated before the next one.
ProgramOrder_per_type ==
    <<"read_SP", "read_SD", "read_SB", "concat", "stamp",
      "merge_SP", "agg_SP", "merge_SB", "agg_SB", "merge_SD", "agg_SD",
      "save", "offer_SP", "offer_SD", "offer_SB", "done">>

\* The statements of process_files and of the Process branch, in source order.
ProgramOrder ==
    <<"read_SP", "read_SD", "read_SB", "concat", "stamp",
      "merge_SP", "merge_SB", "merge_SD", "agg_SP", "agg_SB", "agg_SD",
      "save", "offer_SP", "offer_SD", "offer_SB", "done">>

After(step) == ProgramOrder[IndexOf(ProgramOrder, step) + 1]

\* The script is not running: it ended normally, or an exception ended it.
AtRest == pc \in {"idle", "done", "raised"}

Uploads == Len(uploaded.SP) + Len(uploaded.SD) + Len(uploaded.SB)

Init ==
    /\ uploaded = [t \in Types |-> <<>>]
    /\ selected_date \in Dates
    /\ pc = "idle"
    /\ messages = <<WarnUpload>>
    /\ dfs = NoFrames
    /\ file_df = NoTables
    /\ merged_data = NoTables
    /\ summary = NoTables
    /\ buffer = NoBuffers
    /\ downloads = {}
    /\ assigned = {}

\* A script run in which st.button("Process") is False: the else branch.
RunWithoutButton ==
    /\ pc' = "idle"
    /\ messages' = <<WarnUpload>>
    /\ dfs' = NoFrames
    /\ file_df' = NoTables
    /\ merged_data' = NoTables
    /\ summary' = NoTables
    /\ buffer' = NoBuffers
    /\ downloads' = {}
    /\ assigned' = {}

Upload(t, f) ==
    /\ AtRest
    /\ Uploads < MaxUploads
    /\ uploaded' = [uploaded EXCEPT ![t] = Append(@, f)]
    /\ UNCHANGED selected_date
    /\ RunWithoutButton

SelectDate(d) ==
    /\ AtRest
    /\ d # selected_date
    /\ selected_date' = d
    /\ UNCHANGED uploaded
    /\ RunWithoutButton

\* st.button("Process") is True: process_files is called, whatever was uploaded.
ClickProcess ==
    /\ AtRest
    /\ pc' = "read_SP"
    /\ messages' = <<>>
    /\ dfs' = NoFrames
    /\ file_df' = NoTables
    /\ merged_data' = NoTables
    /\ summary' = NoTables
    /\ buffer' = NoBuffers
    /\ downloads' = {}
    /\ assigned' = {}
    /\ UNCHANGED <<uploaded, selected_date>>

Exception(text) == [kind |-> "exception", text |-> text]

\* sp_dfs = [read_file_asin(file) ...]; sp_file_df = pd.concat(sp_dfs)
ReadSP ==
    /\ pc = "read_SP"
    /\ LET res == [i \in 1..Len(uploaded.SP) |-> read_file_asin(uploaded.SP[i])]
           frames == [i \in 1..Len(res) |-> res[i].df]
           msgs == Flatten([i \in 1..Len(res) |-> res[i].msgs])
       IN /\ dfs' = [dfs EXCEPT !.SP = frames]
          /\ IF Len(frames) = 0 THEN
                /\ pc' = "raised"
                /\ messages' = Append(messages \o msgs,
                                      Exception("ValueError: No objects to concatenate"))
                /\ assigned' = assigned \cup {Local("dfs", "SP")}
                /\ UNCHANGED file_df
             ELSE
                /\ pc' = After(pc)
                /\ messages' = messages \o msgs
                /\ assigned' = assigned \cup {Local("dfs", "SP"), Local("file_df", "SP")}
                /\ file_df' = [file_df EXCEPT !.SP = concat(frames)]
    /\ UNCHANGED <<uploaded, selected_date, merged_data, summary, buffer, downloads>>

\* sd_dfs = [read_file_asin(file) ...]
ReadSD ==
    /\ pc = "read_SD"
    /\ LET res == [i \in 1..Len(uploaded.SD) |-> read_file_asin(uploaded.SD[i])]
       IN /\ dfs' = [dfs EXCEPT !.SD = [i \in 1..Len(res) |-> res[i].df]]
          /\ messages' = messages \o Flatten([i \in 1..Len(res) |-> res[i].msgs])
    /\ assigned' = assigned \cup {Local("dfs", "SD")}
    /\ pc' = After(pc)
    /\ UNCHANGED <<uploaded, selected_date, file_df, merged_data, summary, buffer, downloads>>

\* sb_dfs = [read_file(file) ...]
ReadSB ==
    /\ pc = "read_SB"
    /\ LET res == [i \in 1..Len(uploaded.SB) |-> read_file(uploaded.SB[i])]
       IN /\ dfs' = [dfs EXCEPT !.SB = [i \in 1..Len(res) |-> res[i].df]]
          /\ messages' = messages \o Flatten([i \in 1..Len(res) |-> res[i].msgs])
    /\ assigned' = assigned \cup {Local("dfs", "SB")}
    /\ pc' = After(pc)
    /\ UNCHANGED <<uploaded, selected_date, file_df, merged_data, summary, buffer, downloads>>

\* sd_file_df = pd.concat(sd_dfs); sb_file_df = pd.concat(sb_dfs)
Concat ==
    /\ pc = "concat"
    /\ IF Len(dfs.SD) = 0 THEN
          /\ pc' = "raised"
          /\ messages' = Append(messages, Exception("ValueError: No objects to concatenate"))
          /\ UNCHANGED <<file_df, assigned>>
       ELSE IF Len(dfs.SB) = 0 THEN
          /\ pc' = "raised"
          /\ messages' = Append(messages, Exception("ValueError: No objects to concatenate"))
          /\ file_df' = [file_df EXCEPT !.SD = concat(dfs.SD)]
          /\ assigned' = assigned \cup {Local("file_df", "SD")}
       ELSE
          /\ pc' = After(pc)
          /\ file_df' = [file_df EXCEPT !.SD = concat(dfs.SD), !.SB = concat(dfs.SB)]
          /\ assigned' = assigned \cup {Local("file_df", "SD"), Local("file_df", "SB")}
          /\ UNCHANGED messages
    /\ UNCHANGED <<uploaded, selected_date, dfs, merged_data, summary, buffer, downloads>>

\* selected_date_str = ...; for df in [...]: df['Selected Date'] = selected_date_str
Stamp ==
    /\ pc = "stamp"
    /\ file_df' = [t \in Types |->
                     AssignColumn(file_df[t], SelectedDate, strftime(selected_date))]
    /\ assigned' = assigned \cup {"selected_date_str"}
    /\ pc' = After(pc)
    /\ UNCHANGED <<uploaded, selected_date, messages, dfs, merged_data, summary, buffer,
                   downloads>>

\* merged_data_<t> = pd.merge(<t>_file_df, mapping, left_on=..., right_on=..., how='left')
Merge(t) ==
    /\ pc = Local("merge", t)
    /\ LET m == IF t = "SB"
                THEN merge(file_df[t], Campaign_Mapping, K_Campaigns, "SB Campaign Name")
                ELSE merge(file_df[t], ASIN_Mapping, K_ASIN, "ASIN")
       IN IF m.raised THEN
             /\ pc' = "raised"
             /\ messages' = Append(messages, Exception("KeyError"))
             /\ UNCHANGED <<merged_data, assigned>>
          ELSE
             /\ pc' = After(pc)
             /\ merged_data' = [merged_data EXCEPT ![t] = m.df]
             /\ assigned' = assigned \cup {Local("merged_data", t)}
             /\ UNCHANGED messages
    /\ UNCHANGED <<uploaded, selected_date, dfs, file_df, summary, buffer, downloads>>

\* <t>_summary = aggregate_data(merged_data_<t>, {...})
Aggregate(t) ==
    /\ pc = Local("agg", t)
    /\ LET a == aggregate_data(merged_data[t], AggKeys(t))
       IN IF a.raised THEN
             /\ pc' = "raised"
             /\ messages' = Append(messages, Exception("KeyError"))
             /\ UNCHANGED <<summary, assigned>>
          ELSE
             /\ pc' = After(pc)
             /\ summary' = [summary EXCEPT ![t] = a.df]
             /\ messages' = messages \o a.msgs
             /\ assigned' = assigned \cup {Local("summary", t)}
    /\ UNCHANGED <<uploaded, selected_date, dfs, file_df, merged_data, buffer, downloads>>

\* The three save_df_to_csv calls, st.success and the three st.write lines.
Save ==
    /\ pc = "save"
    /\ buffer' = [t \in Types |-> save_df_to_csv(summary[t])]
    /\ messages' = messages \o
          <<MsgSuccess,
            [kind |-> "write", text |-> "SP files have been updated and merged."],
            [kind |-> "write", text |-> "SD files have been updated and merged."],
            [kind |-> "write", text |-> "SB files have been updated and merged."]>>
    /\ assigned' = assigned \cup {Local("buffer", t) : t \in Types}
    /\ pc' = After(pc)
    /\ UNCHANGED <<uploaded, selected_date, dfs, file_df, merged_data, summary, downloads>>

\* st.download_button(..., data=<t>_buffer.getvalue(), file_name="<t>_Summary.csv")
Download(t) ==
    /\ pc = Local("offer", t)
    /\ downloads' = downloads \cup {[file_name |-> t \o "_Summary.csv", data |-> buffer[t]]}
    /\ pc' = After(pc)
    /\ UNCHANGED <<uploaded, selected_date, messages, dfs, file_df, merged_data, summary,
                   buffer, assigned>>

Next ==
    \/ \E t \in Types : \E f \in Catalogue(t) : Upload(t, f)
    \/ \E d \in Dates : SelectDate(d)
    \/ ClickProcess
    \/ ReadSP
    \/ ReadSD
    \/ ReadSB
    \/ Concat
    \/ Stamp
    \/ \E t \in Types : Merge(t)
    \/ \E t \in Types : Aggregate(t)
    \/ Save
    \/ \E t \in Types : Download(t)

Spec == Init /\ [][Next]_vars

-----------------------------------------------------------------------------
(* Vocabulary of the properties *)

Supported(f) == EndsWith(f.name, DotXlsx) \/ EndsWith(f.name, DotCsv)
Full14 == {S14, O14, U14}
Full7 == {S7, U7, O7}
Canonical == {TotalSales, TotalOrders, TotalUnits}
Header(f) == Range(f.header)
RawCell(f, j, col) == f.data[j][IndexOf(f.header, col)]
IsAssigned(kind, t) == Local(kind, t) \in assigned
MissingMetric(t) == \E c \in Range(AggKeys(t)) : c \notin Range(merged_data[t].cols)
Count(seq, x) == Cardinality({i \in DOMAIN seq : seq[i] = x})

\* C1: if a group has no uploaded file when Process is triggered, then
\* process_files is not invoked, the 'please upload all required files'
\* warning is emitted and no download artifact is produced; artifacts exist
\* only after a trigger with all three groups non-empty.
C1_MissingGroupNotInvoked ==
    /\ (\E t \in Types : Len(uploaded[t]) = 0) =>
          /\ pc = "idle"
          /\ WarnUpload \in Range(messages)
          /\ downloads = {}
    /\ downloads # {} => \A t \in Types : Len(uploaded[t]) > 0

\* The reference mappings have unique keys, so the joined table has one row
\* per report row, in the same order.
KeyColumn(t) == IF t = "SB" THEN K_Campaigns ELSE K_ASIN
MappedKeys(t) ==
    IF t = "SB" THEN {Some("Brand A"), Some("Brand V")}
    ELSE {Some("B01"), Some("B02"), Some("B03")}
Unmatched(t, r) == r[KeyColumn(t)] \notin MappedKeys(t)

\* C2: every report row whose join key has no match in the mapping appears
\* exactly once in the joined table with a null Sub-Category, and after
\* aggregate_data it is counted in a summary row whose Sub-Category is null:
\* its metric values are not dropped.
C2_UnmatchedRowsInNullBucket ==
    \A t \in Types :
        (IsAssigned("summary", t) /\ ~MissingMetric(t)) =>
            /\ Len(merged_data[t].rows) = Len(file_df[t].rows)
            /\ \A i \in 1..Len(file_df[t].rows) :
                  Unmatched(t, file_df[t].rows[i]) =>
                     /\ merged_data[t].rows[i][KeyColumn(t)] = file_df[t].rows[i][KeyColumn(t)]
                     /\ IsNull(merged_data[t].rows[i][SubCategory])
                     /\ \E n \in 1..Len(summary[t].rows) :
                           /\ IsNull(summary[t].rows[n][SubCategory])
                           /\ \A c \in Range(AggKeys(t)) :
                                 NumVal(summary[t].rows[n][c])
                                    >= NumVal(merged_data[t].rows[i][c])

\* The part of C2 the code does satisfy: the left join keeps every unmatched
\* row once, with a null Sub-Category.
LeftJoinKeepsUnmatchedRows ==
    \A t \in Types :
        IsAssigned("merged_data", t) =>
            /\ Len(merged_data[t].rows) = Len(file_df[t].rows)
            /\ \A i \in 1..Len(file_df[t].rows) :
                  Unmatched(t, file_df[t].rows[i]) =>
                     /\ merged_data[t].rows[i][KeyColumn(t)] = file_df[t].rows[i][KeyColumn(t)]
                     /\ IsNull(merged_data[t].rows[i][SubCategory])

\* What process_files computes for one report type from that type's files,
\* the mapping and the date alone.
OwnFrames(t) ==
    [i \in 1..Len(uploaded[t]) |->
        IF t = "SB" THEN read_file(uploaded[t][i]).df ELSE read_file_asin(uploaded[t][i]).df]
OwnMerged(t) ==
    LET stamped == AssignColumn(concat(OwnFrames(t)), SelectedDate, strftime(selected_date))
    IN IF t = "SB" THEN merge(stamped, Campaign_Mapping, K_Campaigns, "SB Campaign Name").df
       ELSE merge(stamped, ASIN_Mapping, K_ASIN, "ASIN").df

\* C3: per report type, if a column of the type's metric set is absent from
\* the joined table, aggregate_data signals an error and the type's summary
\* is the empty table (no partial sums); the summaries of the other types
\* are what their own files give, whether or not a sibling failed.
C3_MissingMetricGivesEmptySummary ==
    /\ \A t \in Types :
          (IsAssigned("summary", t) /\ MissingMetric(t)) =>
              /\ summary[t].cols = <<>>
              /\ summary[t].rows = <<>>
              /\ \A u \in Types \ {t} :
                    (IsAssigned("summary", u) /\ ~MissingMetric(u)) =>
                        /\ summary[u].cols = <<SelectedDate, SubCategory>> \o AggKeys(u)
                        /\ summary[u] = GroupBySum(OwnMerged(u), AggKeys(u))
    /\ Count(messages, ErrMissingCols)
          = Cardinality({t \in Types : IsAssigned("summary", t) /\ MissingMetric(t)})

C3_Witness ==
    /\ pc = "done"
    /\ MissingMetric("SD")
    /\ Spend \notin Range(merged_data.SD.cols)
    /\ TotalOrders \in Range(merged_data.SD.cols)
    /\ Len(merged_data.SD.rows) > 0
    /\ summary.SD = EmptyDataFrame
    /\ ErrMissingCols \in Range(messages)
    /\ Len(summary.SP.rows) > 0
    /\ Len(summary.SB.rows) > 0

\* C4: with all three groups non-empty, a file with an unsupported extension
\* is replaced by an empty table and process_files still completes without
\* raising, with an empty summary for the affected report type.
C4_UnsupportedFileNeverRaises ==
    ((\A t \in Types : Len(uploaded[t]) > 0)
       /\ (\E t \in Types : \E i \in 1..Len(uploaded[t]) : ~Supported(uploaded[t][i]))) =>
        /\ pc # "raised"
        /\ \A t \in Types :
              (IsAssigned("summary", t)
                 /\ \E i \in 1..Len(uploaded[t]) : ~Supported(uploaded[t][i])) =>
                    summary[t] = EmptyDataFrame

\* C5: for a joined table with all required metric columns, aggregate_data
\* returns exactly one row per distinct (Selected Date, Sub-Category) pair
\* occurring in the table, each metric the sum over the rows of the pair,
\* the columns being the grouping columns plus the metrics.
PairsOf(df) == {<<r[SelectedDate], r[SubCategory]>> : r \in Range(df.rows)}
C5_OneRowPerPair ==
    \A t \in Types :
        (IsAssigned("summary", t) /\ ~MissingMetric(t)) =>
            /\ summary[t].cols = <<SelectedDate, SubCategory>> \o AggKeys(t)
            /\ PairsOf(summary[t]) = PairsOf(merged_data[t])
            /\ Len(summary[t].rows) = Cardinality(PairsOf(merged_data[t]))
            /\ \A n \in 1..Len(summary[t].rows) : \A c \in Range(AggKeys(t)) :
                  LET ms == SelectSeq(merged_data[t].rows, LAMBDA r :
                               /\ r[SelectedDate] = summary[t].rows[n][SelectedDate]
                               /\ r[SubCategory] = summary[t].rows[n][SubCategory])
                  IN summary[t].rows[n][c] = Some(SumCells([i \in 1..Len(ms) |-> ms[i][c]]))

AsinTypes == {"SP", "SD"}
NeitherSet(f) == ~(Full14 \subseteq Header(f)) /\ ~(Full7 \subseteq Header(f))

\* C6: the normalizer takes exactly one decision per SP/SD table: all three
\* 14-day columns present: the 14-day map only (7-day columns, if any, keep
\* their names); otherwise all three 7-day columns present: the 7-day map
\* only; otherwise the columns are unchanged and a warning is signalled.
C6_NormalizerDecision ==
    /\ \A t \in AsinTypes : IsAssigned("dfs", t) =>
          \A i \in 1..Len(uploaded[t]) :
             LET f == uploaded[t][i]
                 df == dfs[t][i]
                 h == Header(f)
                 source(c) == IF Full14 \subseteq h THEN
                                  (IF c = TotalSales THEN S14
                                   ELSE IF c = TotalOrders THEN O14
                                   ELSE IF c = TotalUnits THEN U14 ELSE c)
                              ELSE IF Full7 \subseteq h THEN
                                  (IF c = TotalSales THEN S7
                                   ELSE IF c = TotalOrders THEN O7
                                   ELSE IF c = TotalUnits THEN U7 ELSE c)
                              ELSE c
                 expected == IF Full14 \subseteq h THEN (h \ Full14) \cup Canonical
                             ELSE IF Full7 \subseteq h THEN (h \ Full7) \cup Canonical
                             ELSE h
             IN Supported(f) =>
                  /\ Range(df.cols) = expected
                  /\ Len(df.cols) = Len(f.header)
                  /\ Len(df.rows) = Len(f.data)
                  /\ \A j \in 1..Len(f.data) : \A c \in expected :
                        df.rows[j][c] = RawCell(f, j, source(c))
                  /\ NeitherSet(f) => df.cols = f.header
    /\ Count(messages, WarnNotFound) =
          Cardinality({<<t, i>> \in AsinTypes \X (1..MaxUploads) :
                          /\ IsAssigned("dfs", t)
                          /\ i <= Len(uploaded[t])
                          /\ Supported(uploaded[t][i])
                          /\ NeitherSet(uploaded[t][i])})

C6_Witness ==
    /\ IsAssigned("dfs", "SP")
    /\ \E i, j \in 1..Len(uploaded.SP) :
          /\ Supported(uploaded.SP[i])
          /\ Full14 \cup Full7 \subseteq Header(uploaded.SP[i])
          /\ Full7 \cup Canonical \subseteq Range(dfs.SP[i].cols)
          /\ Supported(uploaded.SP[j])
          /\ NeitherSet(uploaded.SP[j])
          /\ Header(uploaded.SP[j]) \cap Full14 # {}
          /\ WarnNotFound \in Range(messages)

Renamed(f) == Supported(f) /\ ~NeitherSet(f)

\* C7: the normalizer is idempotent after a successful rename: on a table a
\* rename map was applied to and that holds no 14-day / 7-day source name any
\* more, applying it again leaves the table unchanged and emits the 'expected
\* columns not found' warning.
C7_NormalizerIdempotent ==
    \A t \in AsinTypes : IsAssigned("dfs", t) =>
        \A i \in 1..Len(uploaded[t]) :
            (Renamed(uploaded[t][i]) /\ Range(dfs[t][i].cols) \cap (Full14 \cup Full7) = {}) =>
                /\ normalize_asin_columns(dfs[t][i]).df = dfs[t][i]
                /\ normalize_asin_columns(dfs[t][i]).msgs = <<WarnNotFound>>

C7_Witness ==
    /\ IsAssigned("dfs", "SD")
    /\ \E i \in 1..Len(uploaded.SD) :
          /\ Renamed(uploaded.SD[i])
          /\ Full7 \subseteq Header(uploaded.SD[i])
          /\ Canonical \subseteq Range(dfs.SD[i].cols)
          /\ Range(dfs.SD[i].cols) \cap (Full14 \cup Full7) = {}
          /\ Len(dfs.SD[i].rows) > 0

\* The YYYY-MM-DD strings of the dates the widget may hold.
ExpectedDateStr ==
    IF selected_date = [y |-> 2000, m |-> 1, d |-> 1] THEN "2000-01-01" ELSE "2024-03-09"

\* C8: after the date-stamping step every row of the three concatenated
\* tables carries the YYYY-MM-DD string of the selected date, also where a
\* file came with a 'Selected Date' column of its own; so do all rows of the
\* joined tables and of the three summaries.
C8_OneSelectedDate ==
    "selected_date_str" \in assigned =>
        /\ \A t \in Types :
              /\ SelectedDate \in Range(file_df[t].cols)
              /\ \A i \in 1..Len(file_df[t].rows) :
                    file_df[t].rows[i][SelectedDate] = Some(ExpectedDateStr)
        /\ \A t \in Types : IsAssigned("merged_data", t) =>
              \A i \in 1..Len(merged_data[t].rows) :
                 merged_data[t].rows[i][SelectedDate] = Some(ExpectedDateStr)
        /\ \A t \in Types : IsAssigned("summary", t) =>
              \A n \in 1..Len(summary[t].rows) :
                 summary[t].rows[n][SelectedDate] = Some(ExpectedDateStr)

C8_Witness ==
    /\ pc = "done"
    /\ \E i \in 1..Len(uploaded.SP) :
          /\ Supported(uploaded.SP[i])
          /\ SelectedDate \in Header(uploaded.SP[i])
          /\ RawCell(uploaded.SP[i], 1, SelectedDate) = Some("1999-12-31")
    /\ Len(file_df.SP.rows) > 1
    /\ Len(summary.SP.rows) > 0
    /\ Len(summary.SB.rows) > 0

\* C9: within one Process run all files of all three types are loaded (SP/SD
\* normalized) and stamped before any join, all three joins happen before any
\* aggregation, and all three summaries are computed and serialized before
\* any download artifact is offered; an offered artifact is the serialized
\* summary of this run.
C9_FixedOrder ==
    /\ (\E t \in Types : IsAssigned("merged_data", t)) =>
          /\ \A u \in Types : IsAssigned("dfs", u) /\ IsAssigned("file_df", u)
          /\ "selected_date_str" \in assigned
    /\ (\E t \in Types : IsAssigned("summary", t)) =>
          \A u \in Types : IsAssigned("merged_data", u)
    /\ (\E t \in Types : IsAssigned("buffer", t)) =>
          \A u \in Types : IsAssigned("summary", u)
    /\ downloads # {} =>
          /\ \A u \in Types : IsAssigned("summary", u) /\ IsAssigned("buffer", u)
          /\ \A a \in downloads : \E u \in Types :
                /\ a.file_name = u \o "_Summary.csv"
                /\ a.data = save_df_to_csv(summary[u])
    /\ pc = "done" =>
          {a.file_name : a \in downloads} = {"SP_Summary.csv", "SD_Summary.csv", "SB_Summary.csv"}

C9_Witness ==
    /\ pc = "offer_SD"
    /\ Cardinality(downloads) = 1
    /\ \A u \in Types : IsAssigned("buffer", u)
    /\ Len(summary.SP.rows) > 0

\* Rows of the uploaded files of type t, in upload order, as read from the
\* convention each file uses.
Convention(f) == IF Full14 \subseteq Header(f) THEN <<S14, O14, U14>> ELSE <<S7, O7, U7>>
RawRows(t) ==
    Flatten([i \in 1..Len(uploaded[t]) |->
                LET f == uploaded[t][i]
                    conv == Convention(f)
                IN [j \in 1..Len(f.data) |->
                      [asin |-> RawCell(f, j, K_ASIN),
                       sales |-> RawCell(f, j, conv[1]),
                       orders |-> RawCell(f, j, conv[2]),
                       units |-> RawCell(f, j, conv[3])]]])
AllConventional(t) ==
    \A i \in 1..Len(uploaded[t]) :
        /\ Renamed(uploaded[t][i])
        /\ {K_ASIN, Spend} \subseteq Header(uploaded[t][i])
Mixed(t) ==
    \E i, j \in 1..Len(uploaded[t]) :
        /\ Full14 \subseteq Header(uploaded[t][i])
        /\ ~(Full14 \subseteq Header(uploaded[t][j]))
        /\ Full7 \subseteq Header(uploaded[t][j])
SubCategoryOfAsin(a) ==
    IF a \in {Some("B01"), Some("B03")} THEN Some("Audio")
    ELSE IF a = Some("B02") THEN Some("Video")
    ELSE Null

\* C10: when the SP (or SD) files use the 14-day convention in some files and
\* the 7-day convention in others, each file is normalized before the
\* concatenation: the concatenated table holds every file's values in the
\* canonical columns Total Sales, Total Orders and Total Units, and every
\* summary row sums the rows of both kinds of file.
C10_MixedConventions ==
    \A t \in AsinTypes :
        (IsAssigned("file_df", t) /\ AllConventional(t)) =>
            LET raw == RawRows(t)
                table == file_df[t]
            IN /\ Canonical \subseteq Range(table.cols)
               /\ Len(table.rows) = Len(raw)
               /\ \A k \in 1..Len(raw) :
                     /\ table.rows[k][K_ASIN] = raw[k].asin
                     /\ table.rows[k][TotalSales] = raw[k].sales
                     /\ table.rows[k][TotalOrders] = raw[k].orders
                     /\ table.rows[k][TotalUnits] = raw[k].units
               /\ IsAssigned("summary", t) =>
                     \A n \in 1..Len(summary[t].rows) :
                        LET ms == SelectSeq(raw, LAMBDA r :
                                     SubCategoryOfAsin(r.asin) = summary[t].rows[n][SubCategory])
                        IN /\ summary[t].rows[n][TotalSales]
                                 = Some(SumCells([k \in 1..Len(ms) |-> ms[k].sales]))
                           /\ summary[t].rows[n][TotalOrders]
                                 = Some(SumCells([k \in 1..Len(ms) |-> ms[k].orders]))
                           /\ summary[t].rows[n][TotalUnits]
                                 = Some(SumCells([k \in 1..Len(ms) |-> ms[k].units]))

C10_Witness ==
    /\ pc = "done"
    /\ Mixed("SP")
    /\ AllConventional("SP")
    /\ uploaded.SP = <<Report14, Report7>>
    /\ \E n \in 1..Len(summary.SP.rows) :
          /\ summary.SP.rows[n][SubCategory] = Some("Audio")
          /\ summary.SP.rows[n][TotalSales] = Some(40)
          /\ summary.SP.rows[n][TotalOrders] = Some(4)

====
